---- MODULE Spec2Model ----
(***************************************************************************)
(* NC Secretary of State business document fetcher                         *)
(* (src/nc_business_doc_fetcher.py): the retrying transport                *)
(* (_perform_request), the two extraction stages, the downloader and the   *)
(* pipeline (process_search_and_download) as one sequential state machine. *)
(*                                                                         *)
(* Time is counted in tenths of a second, so that the default              *)
(* request_delay_seconds of 1.5 is the integer 15.                         *)
(***************************************************************************)
EXTENDS Integers, Sequences, FiniteSets, TLC

\* ------------------------------------------------------------------ bounds
\* largest max_retry_attempts a single transport call is explored with
MaxRetryAttempts == 2
\* largest max_retry_attempts a whole pipeline run is explored with
MaxRunRetries == 1
\* most <tr> rows of a results table in a search response
MaxRows == 3
\* longest business name handed to _download_pdf_file
MaxNameLength == 52
\* most <a href> elements of a detail page handed to _locate_pdf_links
MaxHrefs == 3

\* ------------------------------------------------------- program constants
FILENAME_MAX_LENGTH == 50

\* characters of hashlib.md5(...).hexdigest()[:8]
HashLength == 8

\* characters of strftime("%Y%m%d_%H%M%S")
StampLength == 15

\* tenths of a second in one second (time.sleep takes seconds)
TenthsPerSecond == 10

\* the default request_delay_seconds, 1.5, in tenths of a second
DefaultDelay == 15

\* ------------------------------------------------------------------- state
VARIABLES
  config,            \* ScraperConfiguration (self._config)
  pc,                \* position of process_search_and_download
  tpc,               \* position of the running _perform_request call
  target_url,        \* _perform_request argument
  retry_count,       \* _perform_request argument
  req_error,         \* the RequestException caught by the running frame
  trace,             \* sleeps and GETs of the current _perform_request call
  tres,              \* what the last _perform_request call returned or raised
  dres,              \* what the last _download_pdf_file call returned or raised
  businesses,        \* search_businesses result
  bidx,              \* index of the business the for loop is at
  pdf_links,         \* fetch_business_documents local
  lidx,              \* index of the pdf_url the inner for loop is at
  downloaded_paths,  \* fetch_business_documents local
  results_summary,   \* the outcome dictionary
  storage,           \* files of the storage directory: path -> content
  now,               \* the second the wall clock showed when last read
  slept,             \* tenths of a second slept since, up to one second
  calls,             \* logical fetches started so far, in order
  get_count,         \* session.get calls counted so far (by a counted run)
  links_found        \* document links counted so far (by a counted run)

vars == <<config, pc, tpc, target_url, retry_count, req_error, trace, tres,
          dres, businesses, bidx, pdf_links, lidx, downloaded_paths,
          results_summary, storage, now, slept, calls, get_count,
          links_found>>

\* ------------------------------------------------------------ URLs, hrefs
\* An href or URL is [site, stem, ext]: ext is the end of the string from
\* its last dot on, stem what is before it; site = "" marks a relative href.
NoUrl == [site |-> "", stem |-> "", ext |-> ""]

BaseUrl == "https://www.sosnc.gov"

\* urllib.parse.urljoin(base, href): an href with its own scheme and host is
\* kept, a host-relative one is put under the base.
urljoin(base, href) ==
  [site |-> IF href.site = "" THEN base ELSE href.site,
   stem |-> href.stem, ext |-> href.ext]

\* str.lower() on the extension part of an href
lower(s) ==
  CASE s = ".PDF" -> ".pdf"
    [] s = ".Pdf" -> ".pdf"
    [] s = ".HTML" -> ".html"
    [] OTHER -> s

\* search_businesses: urljoin(base, endpoint) + "?" + urlencode(Words=query)
full_search_url(query) ==
  [site |-> config.target_base_url,
   stem |-> "/online_services/search/by_title/_Business_Registration?Words=" \o query,
   ext |-> ""]

\* ----------------------------------------------------------------- errors
\* requests.RequestException subclasses a GET attempt can raise.  The text
\* of an HTTPError (raise_for_status) names the URL, the text of a
\* TooManyRedirects does not.
ReqErrors == {"HTTPError", "TooManyRedirects"}

\* An exception is [type, text, url, cause]: text is the message as a
\* sequence of fragments (outermost prefix first), url the URL the message
\* spells out (NoUrl if none), cause the name of the innermost exception.
NoError == [type |-> "none", text |-> <<>>, url |-> NoUrl, cause |-> "none"]

\* the exception session.get / raise_for_status raises for error e on url
RequestException(e, url) ==
  [type |-> e,
   text |-> IF e = "HTTPError" THEN <<"404 Client Error: Not Found for url: ">>
                               ELSE <<"Exceeded 30 redirects.">>,
   url |-> IF e = "HTTPError" THEN url ELSE NoUrl,
   cause |-> e]

\* an exception of the try body that is no RequestException
OtherException ==
  [type |-> "Exception", text |-> <<"unexpected">>, url |-> NoUrl,
   cause |-> "Exception"]

\* Wrapped(T, prefix, err): T(f"{prefix}{err}")
Wrapped(type, prefix, err) ==
  [type |-> type, text |-> <<prefix>> \o err.text, url |-> err.url,
   cause |-> err.cause]

\* -------------------------------------------------------- ResultExtractor
\* Texts of markup are sequences of characters.
IsSpace(c) == c = " "

RECURSIVE lstrip(_)
lstrip(s) == IF s # <<>> /\ IsSpace(Head(s)) THEN lstrip(Tail(s)) ELSE s

RECURSIVE rstrip(_)
rstrip(s) ==
  IF s # <<>> /\ IsSpace(s[Len(s)]) THEN rstrip(SubSeq(s, 1, Len(s) - 1)) ELSE s

\* element.get_text(strip=True)
get_text(s) == rstrip(lstrip(s))

\* re.compile(r".*result.*", re.I) against a class attribute
MatchesResult(class) == class \in {"resultsTable", "SearchResults"}

\* re.compile(r".*search.*", re.I) against an id attribute
MatchesSearch(id) == id \in {"searchTable", "SearchResults"}

\* soup.find("table", ...): the first of the tables, as a sequence of at
\* most one table
First(tables) == IF tables = <<>> THEN <<>> ELSE <<Head(tables)>>

HasResultClass(table) == MatchesResult(table.class)

HasSearchId(table) == MatchesSearch(table.id)

\* result_table, had it fallen back to the first table of the page
result_table_or_first(html) ==
  LET by_class == First(SelectSeq(html, HasResultClass)) IN
  IF by_class # <<>> THEN by_class
  ELSE IF SelectSeq(html, HasSearchId) # <<>>
       THEN First(SelectSeq(html, HasSearchId))
       ELSE First(html)

\* lines 155-157: a table by class, else a table by id
result_table(html) ==
  LET by_class == First(SelectSeq(html, HasResultClass)) IN
  IF by_class # <<>> THEN by_class
  ELSE First(SelectSeq(html, HasSearchId))

\* lines 172-178: the record of a row that has >= 3 cells and a link
BusinessRecord(cells) ==
  [entity_name |-> get_text(cells[1].a_text),
   sos_identifier |-> IF Len(cells) > 1 THEN get_text(cells[2].text) ELSE <<>>,
   status_text |-> IF Len(cells) > 2 THEN get_text(cells[3].text) ELSE <<>>,
   date_registered |-> IF Len(cells) > 3 THEN get_text(cells[4].text) ELSE <<>>,
   detail_link |-> urljoin(config.target_base_url, cells[1].href),
   pdf_documents |-> <<>>]

\* lines 167-171: the rows that yield a record
RowYieldsRecord(cells) == Len(cells) >= 3 /\ cells[1].has_a

\* SkipHeader, had the first row been treated as data
SkipNothing(table_rows) == table_rows

\* table_rows[1:]
SkipHeader(table_rows) == IF table_rows = <<>> THEN <<>> ELSE Tail(table_rows)

\* _extract_business_records(html_content)
extract_business_records(html) ==
  LET found == result_table(html) IN
  IF found = <<>> THEN <<>>
  ELSE LET kept == SelectSeq(SkipHeader(found[1].rows), RowYieldsRecord) IN
       [i \in 1..Len(kept) |-> BusinessRecord(kept[i])]

\* ------------------------------------------------- DocumentLinkExtractor
\* IsPdfHref, had the href not been lowered before the comparison
IsPdfHrefCaseSensitive(href) == href.ext = ".pdf"

\* line 223: href.lower().endswith(".pdf")
IsPdfHref(href) == lower(href.ext) = ".pdf"

\* lines 221-226, one pass of the loop body
AddPdfLink(pdf_urls, href) ==
  IF IsPdfHref(href)
  THEN LET full_url == urljoin(config.target_base_url, href) IN
       IF \E i \in 1..Len(pdf_urls) : pdf_urls[i] = full_url
       THEN pdf_urls ELSE Append(pdf_urls, full_url)
  ELSE pdf_urls

RECURSIVE LocateFrom(_, _)
LocateFrom(all_links, pdf_urls) ==
  IF all_links = <<>> THEN pdf_urls
  ELSE LocateFrom(Tail(all_links), AddPdfLink(pdf_urls, Head(all_links)))

\* _locate_pdf_links(html_content): html_content as its <a href> elements
locate_pdf_links(all_links) == LocateFrom(all_links, <<>>)

\* -------------------------------------------------------------- Downloader
\* re.sub(r'[^\w\s-]', '', business_name): the characters that are kept
IsSafeChar(c) == c \in {"A", "B", "a", "b", "0", "1", "_", " ", "-"}

\* safe_name, had the [:FILENAME_MAX_LENGTH] slice been left out
safe_name_untruncated(business_name) == SelectSeq(business_name, IsSafeChar)

\* line 237
safe_name(business_name) ==
  LET kept == SelectSeq(business_name, IsSafeChar) IN
  SubSeq(kept, 1, IF Len(kept) < FILENAME_MAX_LENGTH THEN Len(kept)
                  ELSE FILENAME_MAX_LENGTH)

\* line 238: hashlib.md5(pdf_url.encode()).hexdigest()[:8], kept symbolic
url_hash(pdf_url) == <<"md5", pdf_url>>

\* line 239: datetime.now().strftime("%Y%m%d_%H%M%S"), one-second resolution:
\* the seconds the clock may show when read.  It never runs backwards, it
\* has moved on once a full second was slept since the last reading, and
\* only whether two readings fall into the same second is kept.
Readings ==
  IF slept >= TenthsPerSecond THEN {now + 1} ELSE {now, now + 1}

\* time.sleep(seconds), seconds given in tenths
Slept(tenths) ==
  IF slept + tenths >= TenthsPerSecond THEN TenthsPerSecond ELSE slept + tenths

\* line 241: the number of characters of
\* f"{safe_name}_{url_hash}_{timestamp}.pdf"
filename_length(path) ==
  Len(path.name) + Len(<<"_">>) + HashLength + Len(<<"_">>) + StampLength
    + Len(<<".", "p", "d", "f">>)

\* file_path, had the URL's hash been left out of the file name
file_path_without_hash(pdf_url, business_name, timestamp) ==
  [name |-> safe_name(business_name), hash |-> <<>>, stamp |-> timestamp]

\* lines 241-242: the file path, as its three varying parts
file_path(pdf_url, business_name, timestamp) ==
  [name |-> safe_name(business_name), hash |-> url_hash(pdf_url),
   stamp |-> timestamp]

\* ------------------------------------------------- inputs of the model
Name1 == <<"A", " ">>
Name2 == <<"B", "&">>

Cell(text) == [text |-> text, has_a |-> FALSE, a_text |-> <<>>, href |-> NoUrl]
LinkCell(name, stem) ==
  [text |-> name, has_a |-> TRUE, a_text |-> name,
   href |-> [site |-> "", stem |-> stem, ext |-> ""]]

HeaderRow == <<>>
SampleRows ==
  { HeaderRow,
    <<LinkCell(Name1, "/b/1"), Cell(<<"1">>), Cell(<<"a">>), Cell(<<"0">>)>>,
    <<LinkCell(Name2, "/b/2"), Cell(<<"1">>), Cell(<<" ", "b">>)>>,
    <<Cell(Name1), Cell(<<"1">>), Cell(<<"a">>)>>,
    <<LinkCell(Name2, "/b/2"), Cell(<<"1">>)>> }

SeqsUpTo(S, n) == UNION {[1..k -> S] : k \in 0..n}

SampleTables ==
  { [class |-> c[1], id |-> c[2], rows |-> r] :
      c \in {<<"resultsTable", "">>, <<"", "searchTable">>, <<"layout", "nav">>},
      r \in SeqsUpTo(SampleRows, MaxRows) }

\* search responses: a page with no table or with one table
SearchPages == {<<>>} \cup {<<t>> : t \in SampleTables}

Href(stem, ext) == [site |-> "", stem |-> stem, ext |-> ext]

\* detail responses, as the sequence of their <a href> elements
DetailPages ==
  { <<>>,
    <<Href("/other/page", ".html"), Href("/d/a", ".pdf"), Href("/d/B", ".PDF"),
      Href("/d/a", ".pdf")>> }

\* the <a href> elements of the detail pages _locate_pdf_links is exercised
\* on: relative and absolute, of either case, with a query string after the
\* path and with one that itself ends in .pdf
LinkHrefs ==
  { Href("/d/a", ".pdf"),
    Href("/d/B", ".PDF"),
    Href("/other/page", ".html"),
    [site |-> BaseUrl, stem |-> "/d/a", ext |-> ".pdf"],
    Href("/d/c", ".pdf?v=1"),
    Href("/view?file=x", ".pdf") }

LinkPages == SeqsUpTo(LinkHrefs, MaxHrefs)

\* document responses (response.content)
Contents == {"pdf-bytes"}

\* what a write that fails midway may leave of content in the file
Partial(content) == IF content = "pdf-bytes" THEN {"", "pdf-"} ELSE {""}

\* business names handed to _download_pdf_file: every short name over
\* NameChars, and names about FILENAME_MAX_LENGTH long that alternate two
\* characters
NameChars == {"A", "1", "_", " ", "-", "&"}

LongNameChars == {"A", "_", "&"}

Alternating(c, d, n) == [i \in 1..n |-> IF i % 2 = 1 THEN c ELSE d]

SampleNames ==
  SeqsUpTo(NameChars, 2)
    \cup { Alternating(c, d, n) : c \in LongNameChars, d \in LongNameChars,
                                  n \in (FILENAME_MAX_LENGTH - 1)..MaxNameLength }

\* the document links of the business the downloader is exercised on
SampleLinks ==
  <<urljoin(BaseUrl, Href("/d/a", ".pdf")), urljoin(BaseUrl, Href("/d/B", ".PDF"))>>

DelayChoices == {0, 15}

Queries == {"Acme"}

\* ----------------------------------------------------------------- values
\* One entry of a _perform_request trace: a time.sleep or a GET attempt.
\* err is "none" for a sleep and for a GET that returned a 2xx response.
Ev(kind, tenths, err) == [kind |-> kind, tenths |-> tenths, err |-> err]

\* requests.Response, by the three readings the program makes of its body
Response(tables, hrefs, content) ==
  [status_code |-> 200, tables |-> tables, hrefs |-> hrefs, content |-> content]

NoResponse == [status_code |-> 0, tables |-> <<>>, hrefs |-> <<>>, content |-> ""]

NoPath == [name |-> <<>>, hash |-> <<>>, stamp |-> -1]

\* no _download_pdf_file call has returned or raised since the last request
NoDownload == [status |-> "none", path |-> NoPath, error |-> NoError]

\* the bodies the site answers a fetch of each kind with
BodiesFor(kind) ==
  CASE kind = "search" -> {Response(t, <<>>, "") : t \in SearchPages}
    [] kind = "detail" -> {Response(<<>>, h, "") : h \in DetailPages}
    [] kind = "download" -> {Response(<<>>, <<>>, c) : c \in Contents}

\* line 263: the outcome dictionary as process_search_and_download creates it
NewSummary(search_query) ==
  [search_query |-> search_query, businesses_found |-> 0,
   documents_downloaded |-> 0, downloaded_files |-> <<>>, errors |-> <<>>]

\* the kind of the logical fetch in progress
CurrentKind == calls[Len(calls)].kind

\* ------------------------------------------------------------------- Init
\* The fetcher after __init__: configuration fixed, storage directory
\* present and empty, no request made.
Constructed(max_retries) ==
  /\ config \in [target_base_url : {BaseUrl},
                 request_delay_seconds : DelayChoices,
                 max_retry_attempts : 0..max_retries]
  /\ pc = "start"
  /\ tpc = "idle"
  /\ target_url = NoUrl
  /\ retry_count = 0
  /\ req_error = NoError
  /\ trace = <<>>
  /\ tres = [status |-> "none", response |-> NoResponse, error |-> NoError]
  /\ dres = NoDownload
  /\ businesses = <<>>
  /\ bidx = 1
  /\ pdf_links = <<>>
  /\ lidx = 1
  /\ downloaded_paths = <<>>
  /\ results_summary = NewSummary("")
  /\ storage = [p \in {} |-> ""]
  /\ now = 0
  /\ slept = 0
  /\ calls = <<>>
  /\ get_count = 0
  /\ links_found = 0

Init == Constructed(MaxRunRetries)

\* the max_retry_attempts a counted run is explored with
CountedRetryChoices == {0, 1}

\* a fetcher with the default request delay, whose run is counted
InitRun ==
  /\ Constructed(MaxRunRetries)
  /\ config.request_delay_seconds = DefaultDelay
  /\ config.max_retry_attempts \in CountedRetryChoices

\* a fetcher whose transport is exercised on its own
InitTransport == Constructed(MaxRetryAttempts)

\* A run whose search found one business and whose detail fetch has just
\* returned a page of LinkPages (line 197).
InitLinks ==
  /\ config \in [target_base_url : {BaseUrl},
                 request_delay_seconds : DelayChoices,
                 max_retry_attempts : 0..MaxRunRetries]
  /\ pc = "detail"
  /\ tpc = "returned"
  /\ target_url = urljoin(BaseUrl, Href("/b/1", ""))
  /\ retry_count = 0
  /\ req_error = NoError
  /\ trace = <<Ev("delay", config.request_delay_seconds, "none"),
               Ev("get", 0, "none")>>
  /\ \E page \in LinkPages :
       tres = [status |-> "returned", response |-> Response(<<>>, page, ""),
               error |-> NoError]
  /\ dres = NoDownload
  /\ businesses = <<[entity_name |-> Name1, sos_identifier |-> <<"1">>,
                     status_text |-> <<"a">>, date_registered |-> <<>>,
                     detail_link |-> urljoin(BaseUrl, Href("/b/1", "")),
                     pdf_documents |-> <<>>]>>
  /\ bidx = 1
  /\ pdf_links = <<>>
  /\ lidx = 1
  /\ downloaded_paths = <<>>
  /\ results_summary = [NewSummary("Acme") EXCEPT !.businesses_found = 1]
  /\ storage = [p \in {} |-> ""]
  /\ now = 0
  /\ slept = IF config.request_delay_seconds >= TenthsPerSecond
             THEN TenthsPerSecond ELSE config.request_delay_seconds
  /\ calls = <<[kind |-> "search", url |-> full_search_url("Acme"), b |-> 0,
                l |-> 0, result |-> "ok", path |-> NoPath],
               [kind |-> "detail", url |-> urljoin(BaseUrl, Href("/b/1", "")),
                b |-> 1, l |-> 0, result |-> "pending", path |-> NoPath]>>
  /\ get_count = 0
  /\ links_found = 0

\* A run whose search found one business of any sample name and whose detail
\* fetch has located SampleLinks (line 200): fetch_business_documents is
\* about to download the first of them.
InitDownloader ==
  /\ config \in [target_base_url : {BaseUrl},
                 request_delay_seconds : DelayChoices,
                 max_retry_attempts : 0..MaxRunRetries]
  /\ pc = "links"
  /\ tpc = "idle"
  /\ target_url = urljoin(BaseUrl, Href("/b/1", ""))
  /\ retry_count = 0
  /\ req_error = NoError
  /\ trace = <<Ev("delay", config.request_delay_seconds, "none"),
               Ev("get", 0, "none")>>
  /\ tres = [status |-> "returned",
             response |-> Response(<<>>, <<Href("/d/a", ".pdf"),
                                          Href("/d/B", ".PDF")>>, ""),
             error |-> NoError]
  /\ dres = NoDownload
  /\ \E name \in SampleNames :
       businesses = <<[entity_name |-> name, sos_identifier |-> <<"1">>,
                       status_text |-> <<"a">>, date_registered |-> <<>>,
                       detail_link |-> urljoin(BaseUrl, Href("/b/1", "")),
                       pdf_documents |-> <<>>]>>
  /\ bidx = 1
  /\ pdf_links = SampleLinks
  /\ lidx = 1
  /\ downloaded_paths = <<>>
  /\ results_summary = [NewSummary("Acme") EXCEPT !.businesses_found = 1]
  /\ storage = [p \in {} |-> ""]
  /\ now = 0
  /\ slept = 0
  /\ calls = <<[kind |-> "search", url |-> full_search_url("Acme"), b |-> 0,
                l |-> 0, result |-> "ok", path |-> NoPath],
               [kind |-> "detail", url |-> urljoin(BaseUrl, Href("/b/1", "")),
                b |-> 1, l |-> 0, result |-> "ok", path |-> NoPath]>>
  /\ get_count = 0
  /\ links_found = 0

\* ---------------------------------------------------------------- Transport
\* A call self._perform_request(url) from a caller: retry_count defaults to 0
\* (line 102).  kind, b, l say which logical fetch of the run this is.
PerformRequest(kind, url, b, l) ==
  /\ tpc' = "sleep"
  /\ target_url' = url
  /\ retry_count' = 0
  /\ req_error' = NoError
  /\ trace' = <<>>
  /\ tres' = [status |-> "pending", response |-> NoResponse, error |-> NoError]
  /\ dres' = NoDownload
  /\ calls' = Append(calls, [kind |-> kind, url |-> url, b |-> b, l |-> l,
                             result |-> "pending", path |-> NoPath])

\* the record of the logical fetch in progress, once it is over
Completed(result, path) ==
  [calls EXCEPT ![Len(calls)] = [@ EXCEPT !.result = result, !.path = path]]

\* DelayEvent, had the politeness delay been taken by the first frame only
DelayEventFirstFrameOnly ==
  Ev("delay", IF retry_count = 0 THEN config.request_delay_seconds ELSE 0, "none")

\* line 105: time.sleep(self._config.request_delay_seconds)
DelayEvent == Ev("delay", config.request_delay_seconds, "none")

SleepDelay ==
  /\ tpc = "sleep"
  /\ trace' = Append(trace, DelayEvent)
  /\ slept' = Slept(config.request_delay_seconds)
  /\ tpc' = "get"
  /\ UNCHANGED <<dres, config, pc, target_url, retry_count, req_error, tres,
                 businesses, bidx, pdf_links, lidx, downloaded_paths,
                 results_summary, storage, now, calls>>

\* lines 106-111: the GET answers 2xx and the response is returned
GetReturns ==
  /\ tpc = "get"
  /\ \E r \in BodiesFor(CurrentKind) :
       tres' = [status |-> "returned", response |-> r, error |-> NoError]
  /\ trace' = Append(trace, Ev("get", 0, "none"))
  /\ tpc' = "returned"
  /\ UNCHANGED <<dres, config, pc, target_url, retry_count, req_error,
                 businesses, bidx, pdf_links, lidx, downloaded_paths,
                 results_summary, storage, now, slept, calls>>

\* GetFails, had the error of the first failed attempt been the one kept
GetFailsKeepsFirstError ==
  /\ tpc = "get"
  /\ \E e \in ReqErrors :
       /\ req_error' = IF req_error = NoError
                       THEN RequestException(e, target_url) ELSE req_error
       /\ trace' = Append(trace, Ev("get", 0, e))
  /\ tpc' = "except"
  /\ UNCHANGED <<dres, config, pc, target_url, retry_count, tres,
                 businesses, bidx, pdf_links, lidx, downloaded_paths,
                 results_summary, storage, now, slept, calls>>

\* lines 106-112: the GET or raise_for_status raises a RequestException
GetFails ==
  /\ tpc = "get"
  /\ \E e \in ReqErrors :
       /\ req_error' = RequestException(e, target_url)
       /\ trace' = Append(trace, Ev("get", 0, e))
  /\ tpc' = "except"
  /\ UNCHANGED <<dres, config, pc, target_url, retry_count, tres,
                 businesses, bidx, pdf_links, lidx, downloaded_paths,
                 results_summary, storage, now, slept, calls>>

\* lines 104-112: the try body raises something that is no RequestException;
\* the except clause does not match and the exception leaves the call
GetCrashes ==
  /\ tpc = "get"
  /\ trace' = Append(trace, Ev("get", 0, "Exception"))
  /\ tres' = [status |-> "raised", response |-> NoResponse,
              error |-> OtherException]
  /\ tpc' = "raised"
  /\ UNCHANGED <<dres, config, pc, target_url, retry_count, req_error,
                 businesses, bidx, pdf_links, lidx, downloaded_paths,
                 results_summary, storage, now, slept, calls>>

\* MayRetry, had the comparison been <=
MayRetryOnceMore == retry_count <= config.max_retry_attempts

\* line 113
MayRetry == retry_count < config.max_retry_attempts

\* wait_duration, had it been retry_count * 2
wait_duration_from_zero(count) == count * 2

\* line 114, in seconds
wait_duration(count) == (count + 1) * 2

\* line 118: time.sleep(wait_duration)
BackoffEvent(count) == Ev("backoff", wait_duration(count) * TenthsPerSecond, "none")

\* Retry, had the call passed retry_count on as it is
RetryKeepsCount ==
  /\ tpc = "except"
  /\ MayRetry
  /\ trace' = Append(trace, BackoffEvent(retry_count))
  /\ slept' = Slept(wait_duration(retry_count) * TenthsPerSecond)
  /\ tpc' = "sleep"
  /\ UNCHANGED <<dres, config, pc, target_url, retry_count, req_error, tres,
                 businesses, bidx, pdf_links, lidx, downloaded_paths,
                 results_summary, storage, now, calls>>

\* Retry, had the retry gone straight to the GET
RetryWithoutDelay ==
  /\ tpc = "except"
  /\ MayRetry
  /\ trace' = Append(trace, BackoffEvent(retry_count))
  /\ slept' = Slept(wait_duration(retry_count) * TenthsPerSecond)
  /\ retry_count' = retry_count + 1
  /\ tpc' = "get"
  /\ UNCHANGED <<dres, config, pc, target_url, req_error, tres,
                 businesses, bidx, pdf_links, lidx, downloaded_paths,
                 results_summary, storage, now, calls>>

\* lines 113-119: back off and call _perform_request(target_url, retry_count + 1)
Retry ==
  /\ tpc = "except"
  /\ MayRetry
  /\ trace' = Append(trace, BackoffEvent(retry_count))
  /\ slept' = Slept(wait_duration(retry_count) * TenthsPerSecond)
  /\ retry_count' = retry_count + 1
  /\ tpc' = "sleep"
  /\ UNCHANGED <<dres, config, pc, target_url, req_error, tres,
                 businesses, bidx, pdf_links, lidx, downloaded_paths,
                 results_summary, storage, now, calls>>

\* line 120: SearchOperationError(f"Request failed after retries: {req_error}")
ExhaustedError(err) ==
  Wrapped("SearchOperationError", "Request failed after retries: ", err)

\* lines 113, 120: retries used up, the error leaves every frame of the call
GiveUp ==
  /\ tpc = "except"
  /\ ~MayRetry
  /\ tres' = [status |-> "raised", response |-> NoResponse,
              error |-> ExhaustedError(req_error)]
  /\ tpc' = "raised"
  /\ UNCHANGED <<dres, config, pc, target_url, retry_count, req_error, trace,
                 businesses, bidx, pdf_links, lidx, downloaded_paths,
                 results_summary, storage, now, slept, calls>>

\* ----------------------------------------------------------------- Pipeline
\* lines 263-272, 132-143: the outcome is created and the search is requested
StartSearch ==
  /\ pc = "start"
  /\ \E q \in Queries :
       /\ results_summary' = NewSummary(q)
       /\ PerformRequest("search", full_search_url(q), 0, 0)
  /\ pc' = "search"
  /\ UNCHANGED <<config, businesses, bidx, pdf_links, lidx, downloaded_paths,
                 storage, now, slept>>

\* lines 144, 273: the response is parsed and the businesses are counted
SearchReturned ==
  /\ pc = "search"
  /\ tpc = "returned"
  /\ LET found == extract_business_records(tres.response.tables) IN
       /\ businesses' = found
       /\ results_summary' =
            [results_summary EXCEPT !.businesses_found = Len(found)]
  /\ bidx' = 1
  /\ pc' = "businesses"
  /\ tpc' = "idle"
  /\ calls' = Completed("ok", NoPath)
  /\ UNCHANGED <<dres, config, target_url, retry_count, req_error, trace, tres,
                 pdf_links, lidx, downloaded_paths, storage, now, slept>>

\* line 147: SearchOperationError(f"Unable to search: {err}")
SearchError(err) == Wrapped("SearchOperationError", "Unable to search: ", err)

\* SearchRaised, had the search error been swallowed like a detail error
SearchRaisedSilently ==
  /\ pc = "search"
  /\ tpc = "raised"
  /\ pc' = "done"
  /\ tpc' = "idle"
  /\ calls' = Completed("failed", NoPath)
  /\ UNCHANGED <<dres, config, target_url, retry_count, req_error, trace, tres,
                 businesses, bidx, pdf_links, lidx, downloaded_paths,
                 results_summary, storage, now, slept>>

\* lines 145-147, 280-283: the search failed; the error is recorded and the
\* outcome returned
SearchRaised ==
  /\ pc = "search"
  /\ tpc = "raised"
  /\ results_summary' =
       [results_summary EXCEPT !.errors = Append(@, SearchError(tres.error))]
  /\ pc' = "done"
  /\ tpc' = "idle"
  /\ calls' = Completed("failed", NoPath)
  /\ UNCHANGED <<dres, config, target_url, retry_count, req_error, trace, tres,
                 businesses, bidx, pdf_links, lidx, downloaded_paths,
                 storage, now, slept>>

\* lines 275-276, 196-197: the next business's detail page is requested
FetchDetail ==
  /\ pc = "businesses"
  /\ bidx <= Len(businesses)
  /\ PerformRequest("detail", businesses[bidx].detail_link, bidx, 0)
  /\ pc' = "detail"
  /\ UNCHANGED <<config, businesses, bidx, pdf_links, lidx, downloaded_paths,
                 results_summary, storage, now, slept>>

\* lines 275, 283: no business is left; the outcome is returned
ReturnSummary ==
  /\ pc = "businesses"
  /\ bidx > Len(businesses)
  /\ pc' = "done"
  /\ UNCHANGED <<dres, config, tpc, target_url, retry_count, req_error, trace, tres,
                 businesses, bidx, pdf_links, lidx, downloaded_paths,
                 results_summary, storage, now, slept, calls>>

\* Aggregated, had the counter counted businesses
AggregatedCountsCalls(summary, doc_paths) ==
  [summary EXCEPT !.documents_downloaded = @ + 1,
                  !.downloaded_files = @ \o doc_paths]

\* Aggregated, had the new paths been put in front
AggregatedInFront(summary, doc_paths) ==
  [summary EXCEPT !.documents_downloaded = @ + Len(doc_paths),
                  !.downloaded_files = doc_paths \o @]

\* lines 277-278: what one business's doc_paths add to the outcome
Aggregated(summary, doc_paths) ==
  [summary EXCEPT !.documents_downloaded = @ + Len(doc_paths),
                  !.downloaded_files = @ \o doc_paths]

\* lines 198-200: the detail page is parsed for document links
DetailReturned ==
  /\ pc = "detail"
  /\ tpc = "returned"
  /\ pdf_links' = locate_pdf_links(tres.response.hrefs)
  /\ calls' = Completed("ok", NoPath)
  /\ downloaded_paths' = <<>>
  /\ lidx' = 1
  /\ pc' = "links"
  /\ tpc' = "idle"
  /\ UNCHANGED <<dres, config, target_url, retry_count, req_error, trace, tres,
                 businesses, bidx, results_summary, storage, now, slept>>

\* what fetch_business_documents returns when the detail fetch raised
DetailFailurePaths == <<>>

\* DetailRaised, had fetch_business_documents let the transport's
\* SearchOperationError through to the handler of line 280
DetailRaisedPropagates ==
  /\ pc = "detail"
  /\ tpc = "raised"
  /\ results_summary' =
       [results_summary EXCEPT !.errors = Append(@, tres.error)]
  /\ pc' = "done"
  /\ tpc' = "idle"
  /\ calls' = Completed("failed", NoPath)
  /\ UNCHANGED <<dres, config, target_url, retry_count, req_error, trace, tres,
                 businesses, bidx, pdf_links, lidx, downloaded_paths,
                 storage, now, slept>>

\* lines 210-212, 276-278: the detail fetch raised; the business yields no
\* paths and the loop goes on
DetailRaised ==
  /\ pc = "detail"
  /\ tpc = "raised"
  /\ results_summary' = Aggregated(results_summary, DetailFailurePaths)
  /\ bidx' = bidx + 1
  /\ pc' = "businesses"
  /\ tpc' = "idle"
  /\ calls' = Completed("failed", NoPath)
  /\ UNCHANGED <<dres, config, target_url, retry_count, req_error, trace, tres,
                 businesses, pdf_links, lidx, downloaded_paths, storage, now, slept>>

\* lines 201-203, 233-234: the next document link is requested
FetchDocument ==
  /\ pc = "links"
  /\ lidx <= Len(pdf_links)
  /\ PerformRequest("download", pdf_links[lidx], bidx, lidx)
  /\ pc' = "download"
  /\ UNCHANGED <<config, businesses, bidx, pdf_links, lidx, downloaded_paths,
                 results_summary, storage, now, slept>>

\* ReturnPaths, had the loop over the businesses not moved on
ReturnPathsSameBusiness ==
  /\ pc = "links"
  /\ lidx > Len(pdf_links)
  /\ results_summary' = Aggregated(results_summary, downloaded_paths)
  /\ pc' = "businesses"
  /\ UNCHANGED <<dres, config, tpc, target_url, retry_count, req_error, trace,
                 tres, businesses, bidx, pdf_links, lidx, downloaded_paths,
                 storage, now, slept, calls>>

\* lines 208, 276-278: every link was tried; downloaded_paths is returned and
\* added to the outcome
ReturnPaths ==
  /\ pc = "links"
  /\ lidx > Len(pdf_links)
  /\ results_summary' = Aggregated(results_summary, downloaded_paths)
  /\ bidx' = bidx + 1
  /\ pc' = "businesses"
  /\ UNCHANGED <<dres, config, tpc, target_url, retry_count, req_error, trace, tres,
                 businesses, pdf_links, lidx, downloaded_paths, storage, now,
                 slept, calls>>

\* the path _download_pdf_file computes for the document just fetched when
\* the clock reads timestamp
CurrentPath(timestamp) ==
  file_path(target_url, businesses[bidx].entity_name, timestamp)

\* lines 250-251: raise DocumentRetrievalError(f"PDF download failed: {err}")
DocumentRetrievalError(err) ==
  Wrapped("DocumentRetrievalError", "PDF download failed: ", err)

\* the OSError open() or write() raises
OSError ==
  [type |-> "OSError", text |-> <<"[Errno 28] No space left on device">>,
   url |-> NoUrl, cause |-> "OSError"]

\* _download_pdf_file returns file_path (line 248)
Returned(path) == [status |-> "returned", path |-> path, error |-> NoError]

\* _download_pdf_file raises DocumentRetrievalError from err (line 251)
Raised(err) ==
  [status |-> "raised", path |-> NoPath, error |-> DocumentRetrievalError(err)]

\* lines 244-245: open(file_path, "wb") and write(response.content)
Written(files, path, content) ==
  [p \in DOMAIN files \cup {path} |-> IF p = path THEN content ELSE files[p]]

\* lines 236-248, 204: the document is written and its path kept
DownloadSaved ==
  /\ pc = "download"
  /\ tpc = "returned"
  /\ \E timestamp \in Readings :
       /\ now' = timestamp
       /\ storage' = Written(storage, CurrentPath(timestamp), tres.response.content)
       /\ downloaded_paths' = Append(downloaded_paths, CurrentPath(timestamp))
       /\ calls' = Completed("saved", CurrentPath(timestamp))
       /\ dres' = Returned(CurrentPath(timestamp))
  /\ slept' = 0
  /\ lidx' = lidx + 1
  /\ pc' = "links"
  /\ tpc' = "idle"
  /\ UNCHANGED <<config, target_url, retry_count, req_error, trace, tres,
                 businesses, bidx, pdf_links, results_summary>>

\* lines 244, 250-251, 205-206: open() raises; DocumentRetrievalError is
\* caught by the loop and the link is skipped
DownloadOpenFails ==
  /\ pc = "download"
  /\ tpc = "returned"
  /\ dres' = Raised(OSError)
  /\ calls' = Completed("failed", NoPath)
  /\ lidx' = lidx + 1
  /\ pc' = "links"
  /\ tpc' = "idle"
  /\ UNCHANGED <<config, target_url, retry_count, req_error, trace, tres,
                 businesses, bidx, pdf_links, downloaded_paths,
                 results_summary, storage, now, slept>>

\* lines 244-245, 250-251, 205-206: open() created the file and write()
\* raises; DocumentRetrievalError is caught by the loop and the link is
\* skipped
DownloadWriteFails ==
  /\ pc = "download"
  /\ tpc = "returned"
  /\ \E timestamp \in Readings, left \in Partial(tres.response.content) :
       /\ now' = timestamp
       /\ storage' = Written(storage, CurrentPath(timestamp), left)
  /\ slept' = 0
  /\ dres' = Raised(OSError)
  /\ calls' = Completed("failed", NoPath)
  /\ lidx' = lidx + 1
  /\ pc' = "links"
  /\ tpc' = "idle"
  /\ UNCHANGED <<config, target_url, retry_count, req_error, trace, tres,
                 businesses, bidx, pdf_links, downloaded_paths,
                 results_summary>>

\* DownloadRaised, had the loop not caught DocumentRetrievalError: the
\* handler of line 210 ends the business with no paths
DownloadRaisedEndsBusiness ==
  /\ pc = "download"
  /\ tpc = "raised"
  /\ dres' = Raised(tres.error)
  /\ results_summary' = Aggregated(results_summary, <<>>)
  /\ bidx' = bidx + 1
  /\ pc' = "businesses"
  /\ tpc' = "idle"
  /\ calls' = Completed("failed", NoPath)
  /\ UNCHANGED <<config, target_url, retry_count, req_error, trace, tres,
                 businesses, pdf_links, lidx, downloaded_paths, storage, now,
                 slept>>

\* DownloadRaised, had the skipped link been reported in the outcome
DownloadRaisedRecordsError ==
  /\ pc = "download"
  /\ tpc = "raised"
  /\ dres' = Raised(tres.error)
  /\ results_summary' =
       [results_summary EXCEPT !.errors = Append(@, tres.error)]
  /\ calls' = Completed("failed", NoPath)
  /\ lidx' = lidx + 1
  /\ pc' = "links"
  /\ tpc' = "idle"
  /\ UNCHANGED <<config, target_url, retry_count, req_error, trace, tres,
                 businesses, bidx, pdf_links, downloaded_paths, storage, now,
                 slept>>

\* DownloadRaised, had the file been opened before the fetch was made
DownloadRaisedLeavesFile ==
  /\ pc = "download"
  /\ tpc = "raised"
  /\ dres' = Raised(tres.error)
  /\ storage' = Written(storage, CurrentPath(now), "")
  /\ calls' = Completed("failed", NoPath)
  /\ lidx' = lidx + 1
  /\ pc' = "links"
  /\ tpc' = "idle"
  /\ UNCHANGED <<config, target_url, retry_count, req_error, trace, tres,
                 businesses, bidx, pdf_links, downloaded_paths,
                 results_summary, now, slept>>

\* DownloadRaised, had _download_pdf_file logged the error and returned an
\* empty path
DownloadRaisedSwallowed ==
  /\ pc = "download"
  /\ tpc = "raised"
  /\ dres' = Returned(NoPath)
  /\ downloaded_paths' = Append(downloaded_paths, NoPath)
  /\ calls' = Completed("saved", NoPath)
  /\ lidx' = lidx + 1
  /\ pc' = "links"
  /\ tpc' = "idle"
  /\ UNCHANGED <<config, target_url, retry_count, req_error, trace, tres,
                 businesses, bidx, pdf_links, results_summary, storage, now,
                 slept>>

\* lines 234, 250-251, 205-206: the fetch raised; DocumentRetrievalError is
\* caught by the loop and the link is skipped
DownloadRaised ==
  /\ pc = "download"
  /\ tpc = "raised"
  /\ dres' = Raised(tres.error)
  /\ calls' = Completed("failed", NoPath)
  /\ lidx' = lidx + 1
  /\ pc' = "links"
  /\ tpc' = "idle"
  /\ UNCHANGED <<config, target_url, retry_count, req_error, trace, tres,
                 businesses, bidx, pdf_links, downloaded_paths,
                 results_summary, storage, now, slept>>

\* The two counters are kept by the counted run (NextRun) alone; every
\* other specification leaves them as they are.
Uncounted == UNCHANGED <<get_count, links_found>>

Next ==
  \/ SleepDelay /\ Uncounted
  \/ GetReturns /\ Uncounted
  \/ GetFails /\ Uncounted
  \/ GetCrashes /\ Uncounted
  \/ Retry /\ Uncounted
  \/ GiveUp /\ Uncounted
  \/ StartSearch /\ Uncounted
  \/ SearchReturned /\ Uncounted
  \/ SearchRaised /\ Uncounted
  \/ FetchDetail /\ Uncounted
  \/ ReturnSummary /\ Uncounted
  \/ DetailReturned /\ Uncounted
  \/ DetailRaised /\ Uncounted
  \/ FetchDocument /\ Uncounted
  \/ ReturnPaths /\ Uncounted
  \/ DownloadSaved /\ Uncounted
  \/ DownloadOpenFails /\ Uncounted
  \/ DownloadRaised /\ Uncounted

\* a whole pipeline run
Spec == Init /\ [][Next]_vars

\* one logical fetch: the search request, to the point where it has returned
\* or raised
NextTransport ==
  \/ StartSearch /\ Uncounted
  \/ SleepDelay /\ Uncounted
  \/ GetReturns /\ Uncounted
  \/ GetFails /\ Uncounted
  \/ GetCrashes /\ Uncounted
  \/ Retry /\ Uncounted
  \/ GiveUp /\ Uncounted

SpecTransport == InitTransport /\ [][NextTransport]_vars

\* line 106: one more session.get call
CountGet == get_count' = get_count + 1 /\ UNCHANGED links_found

\* line 198: the links _locate_pdf_links returned
CountLinks == links_found' = links_found + Len(pdf_links') /\ UNCHANGED get_count

\* a whole pipeline run in which the GET attempts and the located links are
\* counted
NextRun ==
  \/ SleepDelay /\ Uncounted
  \/ GetReturns /\ CountGet
  \/ GetFails /\ CountGet
  \/ GetCrashes /\ CountGet
  \/ Retry /\ Uncounted
  \/ GiveUp /\ Uncounted
  \/ StartSearch /\ Uncounted
  \/ SearchReturned /\ Uncounted
  \/ SearchRaised /\ Uncounted
  \/ FetchDetail /\ Uncounted
  \/ ReturnSummary /\ Uncounted
  \/ DetailReturned /\ CountLinks
  \/ DetailRaised /\ Uncounted
  \/ FetchDocument /\ Uncounted
  \/ ReturnPaths /\ Uncounted
  \/ DownloadSaved /\ Uncounted
  \/ DownloadOpenFails /\ Uncounted
  \/ DownloadRaised /\ Uncounted

\* The program is one thread that runs on until it returns: a sleep ends, a
\* GET attempt returns or fails, and every other step is taken at once.
SpecRun == InitRun /\ [][NextRun]_vars /\ WF_vars(NextRun)

\* fetch_business_documents from the first document link on, with every
\* outcome of _download_pdf_file, to the returned outcome
NextDownloader ==
  \/ FetchDocument /\ Uncounted
  \/ SleepDelay /\ Uncounted
  \/ GetReturns /\ Uncounted
  \/ GetFails /\ Uncounted
  \/ GetCrashes /\ Uncounted
  \/ Retry /\ Uncounted
  \/ GiveUp /\ Uncounted
  \/ DownloadSaved /\ Uncounted
  \/ DownloadOpenFails /\ Uncounted
  \/ DownloadWriteFails /\ Uncounted
  \/ DownloadRaised /\ Uncounted
  \/ ReturnPaths /\ Uncounted
  \/ ReturnSummary /\ Uncounted

SpecDownloader == InitDownloader /\ [][NextDownloader]_vars

\* _locate_pdf_links applied to the detail page just fetched
NextLinks == DetailReturned /\ Uncounted

SpecLinks == InitLinks /\ [][NextLinks]_vars

\* ------------------------------------------------- reading a call's trace
Gets == {i \in 1..Len(trace) : trace[i].kind = "get"}

Backoffs == {i \in 1..Len(trace) : trace[i].kind = "backoff"}

Delays == {i \in 1..Len(trace) : trace[i].kind = "delay"}

\* the call in progress is over: it returned a response or raised
CallOver == tres.status \in {"returned", "raised"}

\* every GET attempt of the call failed with a RequestException
AllAttemptsFailed == \A i \in Gets : trace[i].err \in ReqErrors

\* the call gave up after using all its retries
Exhausted ==
  tres.status = "raised" /\ tres.error.type = "SearchOperationError"

\* the error of the last GET attempt of the call
LastAttemptError == trace[Len(trace)].err

\* ---------------------------------------------------------------- Transport
\* C1: when every GET attempt fails with a recoverable error, a call makes
\* exactly max_retry_attempts retries (max_retry_attempts + 1 GETs) and then
\* fails; when an attempt succeeds, its response is returned and it is the
\* last thing the call does: no GET or sleep follows it.
C1_RetriesExactlyThenFails ==
  /\ Cardinality(Gets) <= config.max_retry_attempts + 1
  /\ (CallOver /\ AllAttemptsFailed) =>
       /\ Exhausted
       /\ Cardinality(Gets) = config.max_retry_attempts + 1
       /\ Cardinality(Backoffs) = config.max_retry_attempts
       /\ tres.response = NoResponse
  /\ \A i \in Gets : trace[i].err = "none" =>
       /\ i = Len(trace)
       /\ tres.status = "returned"
       /\ tres.response.status_code = 200
       /\ \A j \in Gets : j < i => trace[j].err \in ReqErrors
  /\ tres.status = "returned" => LastAttemptError = "none"

\* a call that used both of its two retries and gave up
C1_Witness ==
  /\ Exhausted
  /\ config.max_retry_attempts = 2
  /\ Cardinality(Gets) = 3
  /\ AllAttemptsFailed

\* C2: every GET attempt, the first and every retry, comes right after one
\* wait of request_delay_seconds, and every such wait is followed by a GET:
\* a wait and its GET are never separated and never doubled.
C2_DelayBeforeEveryAttempt ==
  /\ \A i \in Gets :
       /\ i >= 2
       /\ trace[i - 1] = Ev("delay", config.request_delay_seconds, "none")
       /\ i >= 3 => trace[i - 2].kind # "delay"
  /\ \A i \in Delays :
       IF i = Len(trace) THEN tpc = "get" ELSE trace[i + 1].kind = "get"
  /\ tpc = "get" => (trace # <<>> /\ trace[Len(trace)].kind = "delay")

\* a retry was attempted after a nonzero delay, and it succeeded
C2_Witness ==
  /\ tres.status = "returned"
  /\ Cardinality(Gets) = 3
  /\ config.request_delay_seconds > 0

\* the number of backoff waits among the first i entries of the trace
BackoffsUpTo(i) == Cardinality({j \in Backoffs : j <= i})

\* C3: the backoff before the k-th retry is k * 2 seconds; it follows a
\* failed attempt, it is followed by the fixed delay and the retry, and none
\* is taken after the final failed attempt.
C3_BackoffLinear ==
  /\ \A i \in Backoffs :
       /\ trace[i].tenths = BackoffsUpTo(i) * 2 * TenthsPerSecond
       /\ i >= 2 /\ trace[i - 1].kind = "get" /\ trace[i - 1].err \in ReqErrors
       /\ i < Len(trace) =>
            trace[i + 1] = Ev("delay", config.request_delay_seconds, "none")
       /\ \A j \in Backoffs : j < i => trace[j].tenths < trace[i].tenths
  /\ Cardinality(Backoffs) <= config.max_retry_attempts
  /\ CallOver => trace[Len(trace)].kind = "get"

\* the second retry is reached: backoffs of 2 s and 4 s were taken
C3_Witness ==
  /\ Cardinality(Backoffs) = 2
  /\ \E i, j \in Backoffs :
       /\ trace[i].tenths = 2 * TenthsPerSecond
       /\ trace[j].tenths = 4 * TenthsPerSecond

\* C4 as stated: after exhausting its retries the call returns no response
\* and its error wraps the last attempt's error and the URL attempted.
C4_ErrorNamesUrl ==
  Exhausted =>
    /\ tres.response = NoResponse
    /\ tres.error.cause = LastAttemptError
    /\ tres.error.url = target_url

\* C4 amended: after exhausting its retries the call returns no response and
\* its error's text is "Request failed after retries: " followed by the text
\* of the last attempt's error, not of an earlier one; the URL is in it only
\* when that error's own text spells it.
C4_ErrorWrapsLastAttempt ==
  Exhausted =>
    /\ tres.response = NoResponse
    /\ tres.error.cause = LastAttemptError
    /\ tres.error.text =
         <<"Request failed after retries: ">>
           \o RequestException(LastAttemptError, target_url).text
    /\ tres.error.url = RequestException(LastAttemptError, target_url).url
    /\ tres.error.url # NoUrl <=> LastAttemptError = "HTTPError"

\* the call gave up after attempts that failed with different errors
C4_Witness ==
  /\ Exhausted
  /\ \E i \in Gets : trace[i].err # LastAttemptError
  /\ LastAttemptError = "TooManyRedirects"

\* ------------------------------------------------- reading the call log
Range(seq) == {seq[i] : i \in 1..Len(seq)}

Details == {i \in 1..Len(calls) : calls[i].kind = "detail"}

Downloads == {i \in 1..Len(calls) : calls[i].kind = "download"}

DownloadsOf(b) == {i \in Downloads : calls[i].b = b}

Saved == {i \in Downloads : calls[i].result = "saved"}

\* the search request of the run raised
SearchFailed == calls # <<>> /\ calls[1].result = "failed"

\* the detail fetch of business b raised
DetailFailed(b) ==
  \E i \in Details : calls[i].b = b /\ calls[i].result = "failed"

\* the detail fetch of business b returned
DetailSucceeded(b) ==
  \E i \in Details : calls[i].b = b /\ calls[i].result = "ok"

\* links 1..n of business b each got exactly one download request, for
\* that link's URL, and b got no other
Covered(b, n) ==
  /\ Cardinality(DownloadsOf(b)) = n
  /\ \A l \in 1..n :
       \E i \in DownloadsOf(b) : calls[i].l = l /\ calls[i].url = pdf_links[l]

\* ----------------------------------------------------------------- Pipeline
\* C5: when the search fails the run ends at once: the outcome has no
\* business, no document, no file, exactly one error message, and the search
\* request is the only request of the run.
C5_SearchFailureEndsRun ==
  SearchFailed =>
    /\ pc = "done"
    /\ results_summary.businesses_found = 0
    /\ results_summary.documents_downloaded = 0
    /\ results_summary.downloaded_files = <<>>
    /\ Len(results_summary.errors) = 1
    /\ Len(calls) = 1
    /\ DOMAIN storage = {}

\* the search gave up after its retries and the run is over
C5_Witness ==
  /\ pc = "done"
  /\ SearchFailed
  /\ Exhausted
  /\ Cardinality(Gets) = 2

\* C6: a business whose detail fetch fails is still counted, gets no
\* download request and so adds no document, puts nothing in the error
\* list, and the loop goes on to every later business.
C6_DetailFailureAbsorbed ==
  \A b \in 1..Len(businesses) :
    DetailFailed(b) =>
      /\ DownloadsOf(b) = {}
      /\ results_summary.errors = <<>>
      /\ results_summary.businesses_found = Len(businesses)
      /\ bidx > b
      /\ pc = "done" =>
           /\ \A later \in (b + 1)..Len(businesses) :
                DetailFailed(later) \/ DetailSucceeded(later)
           /\ results_summary.documents_downloaded = Cardinality(Saved)

\* the first business's detail fetch failed and a document of the second
\* was saved
C6_Witness ==
  /\ pc = "done"
  /\ DetailFailed(1)
  /\ \E i \in Saved : calls[i].b = 2

\* C7: a failed download skips that one link only: every link of the
\* business gets its download request, every business gets its detail
\* request, and the paths saved before stay in the outcome.
C7_DownloadFailureSkipsOneLink ==
  /\ pc = "links" => Covered(bidx, lidx - 1)
  /\ (pc = "businesses" /\ bidx > 1 /\ DetailSucceeded(bidx - 1)) =>
       Covered(bidx - 1, Len(pdf_links))
  /\ (pc = "done" /\ ~SearchFailed) =>
       /\ bidx = Len(businesses) + 1
       /\ \A b \in 1..Len(businesses) : DetailFailed(b) \/ DetailSucceeded(b)
  /\ \A i \in Saved :
       IF calls[i].b < bidx \/ pc = "done"
       THEN calls[i].path \in Range(results_summary.downloaded_files)
       ELSE calls[i].path \in Range(downloaded_paths)

\* a link failed, a later link of the same business was saved, and so was a
\* link of the next business
C7_Witness ==
  /\ pc = "done"
  /\ \E i, j, k \in Downloads :
       /\ i < j /\ j < k
       /\ calls[i].result = "failed" /\ calls[i].b = 1
       /\ calls[j].result = "saved" /\ calls[j].b = 1
       /\ calls[k].result = "saved" /\ calls[k].b = 2

\* C8: in the outcome a run returns, documents_downloaded is the length of
\* downloaded_files.
C8_CountMatchesFiles ==
  pc = "done" =>
    results_summary.documents_downloaded = Len(results_summary.downloaded_files)

\* a run with a failed detail fetch, a failed download and a saved document
C8_Witness ==
  /\ pc = "done"
  /\ results_summary.documents_downloaded >= 1
  /\ \E b \in 1..Len(businesses) : DetailFailed(b)
  /\ \E i \in Downloads : calls[i].result = "failed"

\* the largest link index business b got a download request for
LastLink(b) ==
  IF DownloadsOf(b) = {} THEN 0
  ELSE CHOOSE l \in {calls[i].l : i \in DownloadsOf(b)} :
         \A i \in DownloadsOf(b) : calls[i].l <= l

\* the saved paths of business b from link l on, in link order
RECURSIVE SavedPathsFrom(_, _)
SavedPathsFrom(b, l) ==
  IF l > LastLink(b) THEN <<>>
  ELSE LET hits == {i \in Saved : calls[i].b = b /\ calls[i].l = l} IN
       (IF hits = {} THEN <<>> ELSE <<calls[CHOOSE i \in hits : TRUE].path>>)
         \o SavedPathsFrom(b, l + 1)

\* the saved paths of the businesses from b on, in business order
RECURSIVE SavedFilesFrom(_)
SavedFilesFrom(b) ==
  IF b > Len(businesses) THEN <<>>
  ELSE SavedPathsFrom(b, 1) \o SavedFilesFrom(b + 1)

\* C9: downloaded_files is the saved paths by business order, then link
\* order, the failed links left out; each path is the one computed from its
\* link's URL and its business's name.
C9_FilesInBusinessThenLinkOrder ==
  pc = "done" =>
    /\ results_summary.downloaded_files = SavedFilesFrom(1)
    /\ \A i \in Saved :
         calls[i].path = file_path(calls[i].url,
                                   businesses[calls[i].b].entity_name,
                                   calls[i].path.stamp)

\* two businesses with different saved paths, and a failed link
C9_Witness ==
  /\ pc = "done"
  /\ Len(results_summary.downloaded_files) = 3
  /\ results_summary.downloaded_files[1] # results_summary.downloaded_files[3]
  /\ \E i \in Saved : calls[i].b = 1
  /\ \E i \in Downloads : calls[i].result = "failed" /\ calls[i].b = 2

\* C10: the error list has at most one entry, the search error, and it has
\* one exactly when the search failed; detail and download failures add
\* nothing to it.
C10_OnlySearchErrors ==
  /\ Len(results_summary.errors) <= 1
  /\ results_summary.errors # <<>> =>
       /\ pc = "done"
       /\ SearchFailed
       /\ results_summary.errors[1].type = "SearchOperationError"
       /\ results_summary.errors[1].text[1] = "Unable to search: "
  /\ pc = "done" => (results_summary.errors # <<>> <=> SearchFailed)

\* a run that ended with an empty error list after a detail fetch and a
\* download gave up
C10_Witness ==
  /\ pc = "done"
  /\ results_summary.errors = <<>>
  /\ \E i \in Details : calls[i].result = "failed"
  /\ \E i \in Downloads : calls[i].result = "failed"
  /\ Exhausted

\* --------------------------------------------------------------- Downloader
\* the _download_pdf_file call of the last request is over
DownloadOver ==
  /\ calls # <<>>
  /\ calls[Len(calls)].kind = "download"
  /\ calls[Len(calls)].result # "pending"

\* C11: _download_pdf_file either returns the path of a file it wrote, with
\* the fetched bytes in it, or raises DocumentRetrievalError; when the
\* transport raised, it raises DocumentRetrievalError carrying the
\* transport's error text and returns no path.
C11_DownloadReturnsPathOrRaises ==
  /\ DownloadOver <=> dres.status \in {"returned", "raised"}
  /\ dres.status = "returned" =>
       /\ tres.status = "returned"
       /\ dres.path # NoPath
       /\ dres.path \in DOMAIN storage
       /\ storage[dres.path] = tres.response.content
       /\ calls[Len(calls)].path = dres.path
       /\ dres.error = NoError
  /\ dres.status = "raised" =>
       /\ dres.error.type = "DocumentRetrievalError"
       /\ dres.error.text[1] = "PDF download failed: "
       /\ dres.path = NoPath
       /\ calls[Len(calls)].result = "failed"
       /\ calls[Len(calls)].path = NoPath
  /\ (DownloadOver /\ tres.status = "raised") =>
       /\ dres.status = "raised"
       /\ dres.error.text = <<"PDF download failed: ">> \o tres.error.text
       /\ dres.error.cause = tres.error.cause

\* a download whose transport gave up after a retry ended in
\* DocumentRetrievalError, after an earlier link was saved
C11_Witness ==
  /\ DownloadOver
  /\ dres.status = "raised"
  /\ tres.status = "raised"
  /\ tres.error.type = "SearchOperationError"
  /\ retry_count > 0
  /\ \E i \in Saved : i < Len(calls)

\* the sanitized business name of the download call calls[i]
SafeNameOf(i) == safe_name(businesses[calls[i].b].entity_name)

IsLetter(c) == c \in {"A", "B", "a", "b"}

IsDigit(c) == c \in {"0", "1"}

IsHyphen(c) == c = "-"

IsUnderscore(c) == c = "_"

\* the characters C13 as stated allows in the sanitized name
IsLetterDigitSpaceHyphen(c) ==
  IsLetter(c) \/ IsDigit(c) \/ IsSpace(c) \/ IsHyphen(c)

\* the same, and the underscore
IsWordSpaceHyphen(c) == IsLetterDigitSpaceHyphen(c) \/ IsUnderscore(c)

\* the download calls whose file name was computed and written
Named == {i \in Downloads : calls[i].path # NoPath}

\* the longest a file name may be: the name part and the fixed rest
LongestFilename == FILENAME_MAX_LENGTH + filename_length(NoPath)

\* C13 as stated: the sanitized name of every file written has letters,
\* digits, whitespace and hyphens only and at most FILENAME_MAX_LENGTH
\* characters.
C13_NameOnlyLettersDigitsSpaceHyphen ==
  \A i \in Named :
    /\ Len(calls[i].path.name) <= FILENAME_MAX_LENGTH
    /\ \A k \in 1..Len(calls[i].path.name) :
         IsLetterDigitSpaceHyphen(calls[i].path.name[k])

\* C13: the file name of every file written is made of the sanitized name,
\* the hash of the call's URL and the second the clock showed; the sanitized
\* name is the letters, digits, underscores, whitespace and hyphens of the
\* business name in their order, cut after FILENAME_MAX_LENGTH characters;
\* so the file name has at most FILENAME_MAX_LENGTH characters and the fixed
\* rest.
C13_FileNameForm ==
  \A i \in Named :
    LET path == calls[i].path
        kept == SelectSeq(businesses[calls[i].b].entity_name, IsWordSpaceHyphen)
    IN /\ Len(path.name) <= FILENAME_MAX_LENGTH
       /\ \A k \in 1..Len(path.name) : IsWordSpaceHyphen(path.name[k])
       /\ Len(path.name) =
            (IF Len(kept) < FILENAME_MAX_LENGTH THEN Len(kept)
             ELSE FILENAME_MAX_LENGTH)
       /\ path.name = SubSeq(kept, 1, Len(path.name))
       /\ path.hash = url_hash(calls[i].url)
       /\ path.stamp \in Nat
       /\ filename_length(path) <= LongestFilename

\* a file was written for a business whose name is longer than
\* FILENAME_MAX_LENGTH: its sanitized name was cut and has an underscore
C13_Witness ==
  \E i \in Saved :
    /\ Len(businesses[calls[i].b].entity_name) > FILENAME_MAX_LENGTH
    /\ Len(calls[i].path.name) = FILENAME_MAX_LENGTH
    /\ \E k \in 1..Len(calls[i].path.name) : IsUnderscore(calls[i].path.name[k])

\* ----------------------------------------------------- DocumentLinkExtractor
\* the detail page was just parsed: tres holds it, pdf_links what was found
LinksLocated ==
  /\ calls # <<>>
  /\ calls[Len(calls)].kind = "detail"
  /\ calls[Len(calls)].result = "ok"

\* urlsplit(href).path ends in .pdf, whatever the case: the query string,
\* from the first "?" on, is no part of the path
PathEndsInPdf(href) ==
  /\ href.stem # "/view?file=x"
  /\ \/ lower(href.ext) = ".pdf"
     \/ href.ext = ".pdf?v=1"

\* the positions of the hrefs of page that end in .pdf, whatever the case
PdfPositions(page) == {k \in 1..Len(page) : lower(page[k].ext) = ".pdf"}

\* the first position of page whose href resolves to url
FirstPosition(page, url) ==
  CHOOSE k \in PdfPositions(page) :
    /\ urljoin(config.target_base_url, page[k]) = url
    /\ \A n \in PdfPositions(page) :
         urljoin(config.target_base_url, page[n]) = url => k <= n

\* C14 as stated: the links returned are those of the hrefs whose path ends
\* in .pdf, resolved against the base URL.
C14_LinksByTargetPath ==
  LinksLocated =>
    Range(pdf_links) =
      { urljoin(config.target_base_url, tres.response.hrefs[k]) :
          k \in {n \in 1..Len(tres.response.hrefs) :
                   PathEndsInPdf(tres.response.hrefs[n])} }

\* C14: the links returned are those of the hrefs whose text ends in .pdf,
\* whatever the case, resolved against the base URL to absolute URLs, each
\* once, in the order of their first occurrence in the page; applied to its
\* own result the extraction returns it unchanged.
C14_LinksByHrefSuffix ==
  LinksLocated =>
    LET page == tres.response.hrefs IN
    /\ Range(pdf_links) =
         {urljoin(config.target_base_url, page[k]) : k \in PdfPositions(page)}
    /\ \A i \in 1..Len(pdf_links) : pdf_links[i].site # ""
    /\ \A i \in 1..Len(pdf_links) : \A j \in 1..Len(pdf_links) :
         i < j => /\ pdf_links[i] # pdf_links[j]
                  /\ FirstPosition(page, pdf_links[i])
                       < FirstPosition(page, pdf_links[j])
    /\ locate_pdf_links(pdf_links) = pdf_links

\* a page whose .pdf link occurs twice, once relative and once absolute,
\* after a .PDF link: two links are returned, the .PDF one first
C14_Witness ==
  /\ LinksLocated
  /\ Len(pdf_links) = 2
  /\ Cardinality(PdfPositions(tres.response.hrefs)) = 3
  /\ pdf_links[1].ext = ".PDF"
  /\ tres.response.hrefs[2].site # tres.response.hrefs[3].site

\* ----------------------------------------------------------- ResultExtractor
\* the search response was just parsed: tres holds it, businesses what was
\* found
SearchParsed == Len(calls) = 1 /\ calls[1].result = "ok"

\* no table of the page has a class matching "result" or an id matching
\* "search"
NoResultsTable(html) ==
  \A k \in 1..Len(html) :
    ~MatchesResult(html[k].class) /\ ~MatchesSearch(html[k].id)

\* C15: a search page without a table whose class matches "result" or whose
\* id matches "search" yields no record, and the search does not fail: the
\* outcome counts no business and holds no error.
C15_NoTableNoRecords ==
  (SearchParsed /\ NoResultsTable(tres.response.tables)) =>
    /\ businesses = <<>>
    /\ results_summary.businesses_found = 0
    /\ results_summary.errors = <<>>
    /\ pc \in {"businesses", "done"}

\* a page whose only table matches neither pattern and has a row that would
\* make a record
C15_Witness ==
  /\ SearchParsed
  /\ Len(tres.response.tables) = 1
  /\ NoResultsTable(tres.response.tables)
  /\ Len(tres.response.tables[1].rows) = 2
  /\ RowYieldsRecord(tres.response.tables[1].rows[2])
  /\ businesses = <<>>

\* the rows of a table that are to make a record: after the first, with at
\* least 3 cells and a link in the first cell
Qualifying(rows) ==
  {k \in 2..Len(rows) : Len(rows[k]) >= 3 /\ rows[k][1].has_a}

\* the i-th of them in row order
QualifyingRow(rows, i) ==
  CHOOSE k \in Qualifying(rows) :
    Cardinality({n \in Qualifying(rows) : n <= k}) = i

\* C16: for a results table the records are, in row order, one for each row
\* after the first that has at least 3 cells and a link in its first cell,
\* and none for any other row; each record has the texts of its row's
\* cells, and an empty date when the row has fewer than 4 cells.
C16_OneRecordPerQualifyingRow ==
  (SearchParsed /\ ~NoResultsTable(tres.response.tables)) =>
    LET rows == result_table(tres.response.tables)[1].rows IN
    /\ Len(businesses) = Cardinality(Qualifying(rows))
    /\ \A i \in 1..Len(businesses) :
         LET cells == rows[QualifyingRow(rows, i)] IN
         /\ businesses[i].entity_name = get_text(cells[1].a_text)
         /\ businesses[i].sos_identifier = get_text(cells[2].text)
         /\ businesses[i].status_text = get_text(cells[3].text)
         /\ businesses[i].date_registered =
              (IF Len(cells) < 4 THEN <<>> ELSE get_text(cells[4].text))
         /\ businesses[i].detail_link =
              urljoin(config.target_base_url, cells[1].href)

\* a table whose first row has 3 cells and a link and makes no record,
\* whose second row has 2 cells, and whose third row makes a record with an
\* empty date
C16_Witness ==
  /\ SearchParsed
  /\ ~NoResultsTable(tres.response.tables)
  /\ Len(tres.response.tables[1].rows) = 3
  /\ RowYieldsRecord(tres.response.tables[1].rows[1])
  /\ Len(tres.response.tables[1].rows[2]) = 2
  /\ Len(tres.response.tables[1].rows[3]) = 3
  /\ Len(businesses) = 1
  /\ businesses[1].date_registered = <<>>

\* ----------------------------------------------------------- order of a run
\* C17: a run makes its fetches one after the other, each over before the
\* next starts: first the one search fetch; then, for the businesses in
\* search-result order, one detail fetch each, followed at once, when it
\* succeeded, by one download for each link found, in link order, all before
\* the next business's detail fetch; when the search succeeded the run ends
\* only after every business had its detail fetch.
C17_LinearOrder ==
  LET details == Details
      downloads == Downloads
  IN
  /\ pc = "start" <=> calls = <<>>
  /\ \A i \in 1..Len(calls) :
       /\ calls[i].kind = "search" <=> i = 1
       /\ i < Len(calls) => calls[i].result # "pending"
  /\ \A i \in details :
       /\ calls[1].result = "ok"
       /\ calls[i].b = Cardinality({j \in details : j <= i})
       /\ calls[i].b <= Len(businesses)
       /\ calls[i].url = businesses[calls[i].b].detail_link
  /\ \A i \in downloads :
       /\ calls[i].l >= 1
       /\ i - calls[i].l \in details
       /\ calls[i - calls[i].l].b = calls[i].b
       /\ calls[i - calls[i].l].result = "ok"
       /\ \A j \in (i - calls[i].l + 1)..(i - 1) : j \in downloads
  /\ (pc = "links" /\ lidx > Len(pdf_links)) => Covered(bidx, Len(pdf_links))
  /\ pc = "done" =>
       /\ calls[Len(calls)].result # "pending"
       /\ ~SearchFailed => Cardinality(details) = Len(businesses)
  /\ pc = "search" => Len(calls) = 1
  /\ pc = "detail" => calls[Len(calls)].kind = "detail"
  /\ pc = "download" => calls[Len(calls)].kind = "download"
  /\ pc \in {"detail", "links", "download"} =>
       \E d \in details : calls[d].b = bidx

\* a finished run over two businesses with two document links each, one of
\* the first business's downloads having failed
C17_Witness ==
  /\ pc = "done"
  /\ Len(businesses) = 2
  /\ Cardinality(DownloadsOf(1)) = 2
  /\ Cardinality(DownloadsOf(2)) = 2
  /\ \E i \in DownloadsOf(1) : calls[i].result = "failed"

\* ------------------------------------------------- recursion and the loop
IsGet(ev) == ev.kind = "get"

\* what each GET attempt of the call in progress did, in order: "none" for
\* a response, else the error
GetOutcomes ==
  LET gets == SelectSeq(trace, IsGet) IN [i \in 1..Len(gets) |-> gets[i].err]

IsPrefix(s, t) == Len(s) <= Len(t) /\ SubSeq(t, 1, Len(s)) = s

\* The explicit bounded loop: attempt counts from 0 to max_retry_attempts;
\* each pass waits the request delay and makes one GET, whose outcome is
\* outcomes[attempt + 1]; a response is returned, an error that is no
\* RequestException is raised as it is, a RequestException is followed by a
\* wait of 2 * (attempt + 1) seconds and the next pass or, in the last
\* pass, raised wrapped.  events is what the loop did so far; the result is
\* what it has done and how it ended when the outcomes are used up.
RECURSIVE LoopFrom(_, _, _)
LoopFrom(outcomes, attempt, events) ==
  LET waited == Append(events, Ev("delay", config.request_delay_seconds, "none"))
  IN
  IF attempt >= Len(outcomes)
  THEN [trace |-> waited, status |-> "pending", error |-> NoError]
  ELSE LET outcome == outcomes[attempt + 1]
           got == Append(waited, Ev("get", 0, outcome))
       IN
       IF outcome = "none"
       THEN [trace |-> got, status |-> "returned", error |-> NoError]
       ELSE IF outcome \notin ReqErrors
       THEN [trace |-> got, status |-> "raised", error |-> OtherException]
       ELSE IF attempt = config.max_retry_attempts
       THEN [trace |-> got, status |-> "raised",
             error |-> Wrapped("SearchOperationError",
                               "Request failed after retries: ",
                               RequestException(outcome, target_url))]
       ELSE LoopFrom(outcomes, attempt + 1,
                     Append(got, Ev("backoff",
                                    2 * (attempt + 1) * TenthsPerSecond,
                                    "none")))

BoundedLoop(outcomes) == LoopFrom(outcomes, 0, <<>>)

\* C18: for every sequence of outcomes of the GET attempts, the call does
\* what the bounded loop does on the same outcomes: while it runs, its
\* waits and GETs are a beginning of the loop's; when it is over, they are
\* the loop's, and it returned or raised as the loop does, with the same
\* error.
C18_RecursionIsBoundedLoop ==
  calls # <<>> =>
    LET loop == BoundedLoop(GetOutcomes) IN
    /\ IsPrefix(trace, loop.trace)
    /\ CallOver =>
         /\ trace = loop.trace
         /\ tres.status = loop.status
         /\ tres.error = loop.error
         /\ tres.status = "returned" <=> tres.response.status_code = 200
    /\ ~CallOver => retry_count <= config.max_retry_attempts

\* a call with request delay that failed MaxRetryAttempts times with
\* different errors and then returned a response
C18_Witness ==
  /\ CallOver
  /\ tres.status = "returned"
  /\ config.request_delay_seconds > 0
  /\ retry_count = MaxRetryAttempts
  /\ GetOutcomes[1] # GetOutcomes[2]

\* ------------------------------------------------------------ BusinessRecord
\* C19 as stated: pdf_documents of a business is empty until its detail
\* fetch has succeeded, and from then on it is the sequence of document URLs
\* located on the detail page.
C19_PdfDocumentsHoldLinks ==
  \A b \in 1..Len(businesses) :
    /\ ~DetailSucceeded(b) => businesses[b].pdf_documents = <<>>
    /\ (b = bidx /\ pc \in {"links", "download"}) =>
         businesses[b].pdf_documents = pdf_links

\* ------------------------------------------------------------------ storage
\* a step in which the _download_pdf_file call in progress returns a path
DownloadReturns ==
  pc = "download" /\ pc' = "links" /\ dres'.status = "returned"

\* C20: the files of the storage directory change only in a download call
\* whose fetch returned a response, so that a call whose fetch raised
\* creates and modifies no file; a call that returns a path has written
\* exactly the file of that path, with the fetched bytes as its content, and
\* left every other file as it was; every path of the outcome's
\* downloaded_files is the path of a file in the directory that such a call
\* of the run returned.
C20_StorageChangesOnlyBySuccessfulFetch ==
  /\ [][storage' # storage =>
          (pc = "download" /\ tpc = "returned" /\ tres.status = "returned")]_vars
  /\ [][DownloadReturns =>
          /\ DOMAIN storage' = DOMAIN storage \cup {dres'.path}
          /\ storage'[dres'.path] = tres.response.content
          /\ \A q \in DOMAIN storage \ {dres'.path} : storage'[q] = storage[q]]_vars
  /\ [](\A k \in 1..Len(results_summary.downloaded_files) :
          /\ results_summary.downloaded_files[k] \in DOMAIN storage
          /\ \E i \in Saved :
               calls[i].path = results_summary.downloaded_files[k])

\* a finished run in which the first document was saved and the fetch of
\* the second raised: one file, one path in the outcome
C20_Witness ==
  /\ pc = "done"
  /\ calls[Len(calls)].result = "failed"
  /\ tres.status = "raised"
  /\ Cardinality(Saved) = 1
  /\ Cardinality(DOMAIN storage) = 1
  /\ Len(results_summary.downloaded_files) = 1

\* -------------------------------------------------------------- termination
\* the most GET attempts the requests made so far may have taken: one search,
\* one detail fetch for each business and one download for each link
\* located, each of at most max_retry_attempts + 1 attempts
GetBudget ==
  (1 + Len(businesses) + links_found) * (config.max_retry_attempts + 1)

\* C21: every run reaches the end and returns its outcome; no request is
\* left unfinished when it does; and at every point of a run with B
\* businesses and L located links the number of GET attempts made is at
\* most (1 + B + L) * (max_retry_attempts + 1).
C21_RunEndsWithinGetBudget ==
  /\ <>(pc = "done")
  /\ [](get_count <= GetBudget)
  /\ [](pc = "done" =>
          /\ tpc \in {"idle", "raised"}
          /\ \A i \in 1..Len(calls) : calls[i].result # "pending")

\* a finished run over two businesses with two links each, in which every
\* request took all its attempts
C21_Witness ==
  /\ pc = "done"
  /\ Len(businesses) = 2
  /\ links_found = 4
  /\ config.max_retry_attempts = 1
  /\ get_count = GetBudget

====
